---- MODULE Spec2Model ----
(***************************************************************************)
(* Quadratic-voting entry form (voting_app.py) and the read-only           *)
(* visualization of the recorded votes (votes_visualization_app.py).       *)
(* Both share one file, votes.json.                                        *)
(***************************************************************************)
EXTENDS Integers, Sequences, FiniteSets, TLC

\* ---------------------------------------------------------------- bounds
MaxCredits == 5      \* config["credits"] ranges over 1..MaxCredits
MaxClock == 1        \* datetime.now() reads 0..MaxClock, in seconds
MaxFinalize == 2     \* complete_vote is started at most this many times
MaxInput == 3        \* a voter types a count in -1..MaxInput
MaxVotes == 2        \* AllocInit draws each count of a ballot from 0..MaxVotes
MaxRecords == 2      \* ReadInit draws a file of up to MaxRecords records

Sessions == {"s1", "s2"}
Usernames == {"alice", "bob"}
OptionSets == {{"A"}, {"A", "B"}}
Buttons == {"confirm", "yes_anyway", "confirm_yes", "confirm_no"}

VARIABLES
    credits,              \* config["credits"]
    options,              \* config["options"]
    username,             \* st.session_state.username (the text input)
    last_username,        \* st.session_state.last_username ("" = not set)
    user_votes,           \* st.session_state.user_votes
    vote_completed,       \* st.session_state.vote_completed
    show_confirm_dialog,  \* st.session_state.show_confirm_dialog
    vote_datetime,        \* complete_vote's local vote_datetime (0 outside it)
    all_votes,            \* complete_vote's local all_votes (<<>> outside it)
    pc,                   \* where a session is in complete_vote
    validation,           \* what validate_votes reported on the last run
    votes_json,           \* the file votes.json
    now,                  \* the last reading of datetime.now(), in seconds
    started,              \* number of complete_vote calls started
    overlapped,           \* the complete_vote calls under way began while
                          \* another was under way
    last_input,           \* the last value typed into a number input
    viz_pc,               \* where the visualization's main() is
    df_original,          \* main's df_original
    vote_columns,         \* main's vote_columns
    df_processed,         \* main's df_processed
    vote_summary          \* main's vote_summary

vars == <<credits, options, username, last_username, user_votes,
          vote_completed, show_confirm_dialog, vote_datetime, all_votes, pc,
          validation, votes_json, now, started, overlapped, last_input,
          viz_pc, df_original, vote_columns, df_processed, vote_summary>>

vizVars == <<viz_pc, df_original, vote_columns, df_processed, vote_summary>>

\* ------------------------------------------------------------ JSON values
\* A JSON value in a record's "votes" object, as json.load returns it.
\* k = "int": the integer v; "intstr": a string that is the decimal literal
\* of v; "str": any other string; "float": the finite number v/2;
\* "null": None; "inf": Infinity.
Cell(k, v) == [k |-> k, v |-> v]

\* json.dump of st.session_state.user_votes: integer counts become numbers.
json_votes(b) == [o \in DOMAIN b |-> Cell("int", b[o])]

\* json.load of a "votes" object written by json_votes.
py_votes(j) == [o \in DOMAIN j |-> j[o].v]

\* ------------------------------------------------------------- allocator
\* int(x ** 0.5) for an integer x >= 0 (exact for x < 2^52).
isqrt(x) == CHOOSE r \in 0..x : r * r <= x /\ (r + 1) * (r + 1) > x

Max(a, b) == IF a >= b THEN a ELSE b
Min(a, b) == IF a <= b THEN a ELSE b

RECURSIVE SumSq(_, _)
SumSq(b, S) ==
    IF S = {} THEN 0
    ELSE LET o == CHOOSE x \in S : TRUE
         IN b[o] * b[o] + SumSq(b, S \ {o})

\* The operators below take the ballot b = st.session_state.user_votes.
get_total_cost(b) == SumSq(b, DOMAIN b)

get_remaining_credits(b) == credits - get_total_cost(b)

\* Mutant: the other options' cost is not subtracted from the budget.
calculate_max_votes_ignoring_others(b, option) ==
    IF Cardinality(options) > 1
    THEN Min(isqrt(credits), isqrt(credits - 1))
    ELSE isqrt(credits)

\* Mutant: the cap for several options is left out.
calculate_max_votes_uncapped(b, option) ==
    isqrt(Max(0, credits - SumSq(b, DOMAIN b \ {option})))

\* Mutant: the cap for several options is floor(sqrt(credits)).
calculate_max_votes_capped_at_budget(b, option) ==
    IF Cardinality(options) > 1
    THEN Min(isqrt(Max(0, credits - SumSq(b, DOMAIN b \ {option}))),
             isqrt(credits))
    ELSE isqrt(Max(0, credits - SumSq(b, DOMAIN b \ {option})))

calculate_max_votes_for_option(b, option) ==
    LET other_options_cost == SumSq(b, DOMAIN b \ {option})
        remaining_credits == Max(0, credits - other_options_cost)
        theoretical_max == isqrt(remaining_credits)
    IN IF Cardinality(options) > 1
       THEN Min(theoretical_max, isqrt(credits - 1))
       ELSE theoretical_max

\* Mutant: the next vote is refused only when it alone exceeds the budget.
can_vote_more_lenient(b) ==
    \E option \in options :
        LET current_votes == b[option]
        IN /\ get_remaining_credits(b)
                  >= (current_votes + 1) * (current_votes + 1)
                         - current_votes * current_votes
           /\ ~(/\ Cardinality(options) > 1
                /\ (current_votes + 1) * (current_votes + 1) > credits)

can_vote_more(b) ==
    \E option \in options :
        LET current_votes == b[option]
            cost_for_next_vote ==
                (current_votes + 1) * (current_votes + 1)
                    - current_votes * current_votes
            would_exceed_single_limit ==
                /\ Cardinality(options) > 1
                /\ (current_votes + 1) * (current_votes + 1) >= credits
        IN /\ get_remaining_credits(b) >= cost_for_next_vote
           /\ ~would_exceed_single_limit

\* Mutant: an option fails the single-option check only above the budget.
validate_votes_strict(b) ==
    IF get_total_cost(b) > credits THEN "OverBudget"
    ELSE IF /\ Cardinality(options) > 1
            /\ \E o \in DOMAIN b : b[o] * b[o] > credits
         THEN "SingleOptionMonopoly"
         ELSE "ok"

validate_votes(b) ==
    IF get_total_cost(b) > credits THEN "OverBudget"
    ELSE IF /\ Cardinality(options) > 1
            /\ \E o \in DOMAIN b : b[o] * b[o] >= credits
         THEN "SingleOptionMonopoly"
         ELSE "ok"

\* ---------------------------------------------------------------- ledger
File(state, data) == [state |-> state, data |-> data]

load_votes ==
    IF votes_json.state = "absent" \/ votes_json.state = "empty"
    THEN <<>>
    ELSE votes_json.data

\* Mutant: only the record just appended is written.
save_votes_last_only(votes) == File("json", <<votes[Len(votes)]>>)

save_votes(votes) == File("json", votes)

VoteRecord(s) ==
    [username |-> username[s],
     votes |-> json_votes(user_votes[s]),
     vote_datetime |-> vote_datetime[s]]

Running == {s \in Sessions : pc[s] # "idle"}

\* What last_input holds before anything was typed (b: the ballot).
NoInput(b) == [typed |-> FALSE, option |-> "A", value |-> 0, before |-> b]

\* The visualization has not run.
VizIdle ==
    /\ viz_pc = "start"
    /\ df_original = <<>>
    /\ vote_columns = {}
    /\ df_processed = <<>>
    /\ vote_summary = <<>>

\* ---------------------------------------------------------- visualization
\* Mutant: a fractional number is rounded down (math.floor).
py_int_floor(c) ==
    CASE c.k = "int" -> [raises |-> "", v |-> c.v]
      [] c.k = "intstr" -> [raises |-> "", v |-> c.v]
      [] c.k = "float" -> [raises |-> "", v |-> c.v \div 2]
      [] c.k = "str" -> [raises |-> "ValueError", v |-> 0]
      [] c.k = "null" -> [raises |-> "TypeError", v |-> 0]
      [] c.k = "inf" -> [raises |-> "OverflowError", v |-> 0]

\* int(vote_value): the integer, or the exception int() raises.
py_int(c) ==
    CASE c.k = "int" -> [raises |-> "", v |-> c.v]
      [] c.k = "intstr" -> [raises |-> "", v |-> c.v]
      [] c.k = "float" ->
             [raises |-> "",
              v |-> IF c.v >= 0 THEN c.v \div 2 ELSE -((-c.v) \div 2)]
      [] c.k = "str" -> [raises |-> "ValueError", v |-> 0]
      [] c.k = "null" -> [raises |-> "TypeError", v |-> 0]
      [] c.k = "inf" -> [raises |-> "OverflowError", v |-> 0]

\* user_votes.get(column, 0)
votes_get(votes, column) ==
    IF column \in DOMAIN votes THEN votes[column] ELSE Cell("int", 0)

\* What one record adds to a column's votes list: try int(), except
\* (ValueError, TypeError) append 0.
vote_of(votes, column) ==
    LET r == py_int(votes_get(votes, column))
    IN IF r.raises \in {"ValueError", "TypeError"} THEN 0 ELSE r.v

\* The exception calculate_vote_summary lets through, "" if none.
summary_raises(df, columns) ==
    IF df = <<>> \/ columns = {} THEN ""
    ELSE IF \E i \in 1..Len(df), c \in columns :
                py_int(votes_get(df[i].votes, c)).raises = "OverflowError"
         THEN "OverflowError"
         ELSE ""

RECURSIVE SumVotes(_, _, _)
SumVotes(df, column, n) ==
    IF n = 0 THEN 0
    ELSE SumVotes(df, column, n - 1) + vote_of(df[n].votes, column)

\* calculate_vote_summary when it raises nothing: {} is the empty function.
calculate_vote_summary(df, columns) ==
    IF df = <<>> \/ columns = {} THEN <<>>
    ELSE [c \in columns |-> SumVotes(df, c, Len(df))]

\* _extract_vote_columns: the keys of every record's votes (a sorted list
\* without repeats in the code, its set of elements here).
extract_vote_columns(df) ==
    UNION {DOMAIN df[i].votes : i \in 1..Len(df)}

\* Mutant: a file of no bytes is read as an empty array.
load_vote_data_raises_if_absent ==
    IF votes_json.state = "absent" THEN "FileNotFoundError" ELSE ""

\* load_vote_data: the exception open or json.load raises, "" if none.
load_vote_data_raises ==
    IF votes_json.state = "absent" THEN "FileNotFoundError"
    ELSE IF votes_json.state = "empty" THEN "JSONDecodeError"
    ELSE ""

\* load_vote_data when it raises nothing: the frame and the vote columns.
load_vote_data ==
    [df |-> votes_json.data, vote_columns |-> extract_vote_columns(votes_json.data)]

\* The rows of df taken in the order p of their indices.
Arrange(df, p) == [i \in 1..Len(df) |-> df[p[i]]]

\* df.sort_values('vote_datetime') with the default kind, quicksort, which
\* is not stable: every arrangement in ascending vote_datetime, rows of
\* equal vote_datetime in any order.
sort_values(df) ==
    {Arrange(df, p) : p \in
        {q \in Permutations(1..Len(df)) :
            \A i, j \in 1..Len(df) :
                i < j => df[q[i]].vote_datetime <= df[q[j]].vote_datetime}}

RECURSIVE Pick(_, _, _)
\* The rows of df at the indices in keep, from row n on, in df's order.
Pick(df, keep, n) ==
    IF n > Len(df) THEN <<>>
    ELSE (IF n \in keep THEN <<df[n]>> ELSE <<>>) \o Pick(df, keep, n + 1)

\* groupby('username').tail(1).reset_index(drop=True): the last row of each
\* username, in the frame's order.
groupby_tail(df) ==
    Pick(df,
         {i \in 1..Len(df) :
             \A j \in (i + 1)..Len(df) : df[j].username # df[i].username},
         1)

\* remove_duplicate_users: the frames it can return.
remove_duplicate_users(df) ==
    IF df = <<>> THEN {df}
    ELSE {groupby_tail(sorted) : sorted \in sort_values(df)}

\* ------------------------------------------------------------------ Init
Init ==
    /\ credits \in 1..MaxCredits
    /\ options \in OptionSets
    /\ username = [s \in Sessions |-> ""]
    /\ last_username = [s \in Sessions |-> ""]
    /\ user_votes = [s \in Sessions |-> [o \in options |-> 0]]
    /\ vote_completed = [s \in Sessions |-> FALSE]
    /\ show_confirm_dialog = [s \in Sessions |-> FALSE]
    /\ vote_datetime = [s \in Sessions |-> 0]
    /\ all_votes = [s \in Sessions |-> <<>>]
    /\ pc = [s \in Sessions |-> "idle"]
    /\ validation = [s \in Sessions |-> "none"]
    /\ votes_json \in {File("absent", <<>>), File("empty", <<>>),
                       File("json", <<>>)}
    /\ now = 0
    /\ started = 0
    /\ overlapped = FALSE
    /\ last_input = NoInput(user_votes["s1"])
    /\ VizIdle

\* --------------------------------------------------------------- actions
\* The voter types a name u (not blank: run() stops at a blank name before
\* it renders anything): run() with the reset on a changed name.
text_input(s, u) ==
    /\ UNCHANGED <<vizVars, last_input>>
    /\ pc[s] = "idle"
    /\ u # username[s]
    /\ username' = [username EXCEPT ![s] = u]
    /\ last_username' = [last_username EXCEPT ![s] = u]
    /\ IF last_username[s] # u
       THEN /\ vote_completed' = [vote_completed EXCEPT ![s] = FALSE]
            /\ show_confirm_dialog' =
                   [show_confirm_dialog EXCEPT ![s] = FALSE]
       ELSE UNCHANGED <<vote_completed, show_confirm_dialog>>
    /\ validation' = [validation EXCEPT ![s] = validate_votes(user_votes[s])]
    /\ UNCHANGED <<credits, options, user_votes, vote_datetime, all_votes, pc,
                   votes_json, now, started, overlapped>>

\* Mutant: the number input is given no max_value.
number_input_without_max(s, option, value) ==
    /\ pc[s] = "idle"
    /\ username[s] # ""
    /\ IF 0 <= value
       THEN /\ user_votes' = [user_votes EXCEPT ![s][option] = value]
            /\ validation' =
                   [validation EXCEPT ![s] = validate_votes(user_votes'[s])]
       ELSE UNCHANGED <<user_votes, validation>>
    /\ UNCHANGED <<credits, options, username, last_username, vote_completed,
                   show_confirm_dialog, vote_datetime, all_votes, pc,
                   votes_json, now, started, overlapped, vizVars>>

\* The voter types value into the number input of option: the widget takes
\* it only within [min_value, max_value]; update_vote and the rerun follow.
\* (last_input is left to the caller: see SetVote and AllocSetVote.)
number_input(s, option, value) ==
    /\ UNCHANGED vizVars
    /\ pc[s] = "idle"
    /\ username[s] # ""
    /\ LET max_votes == calculate_max_votes_for_option(user_votes[s], option)
       IN IF 0 <= value /\ value <= max_votes
          THEN /\ user_votes' = [user_votes EXCEPT ![s][option] = value]
               /\ validation' =
                      [validation EXCEPT ![s] = validate_votes(user_votes'[s])]
          ELSE UNCHANGED <<user_votes, validation>>
    /\ UNCHANGED <<credits, options, username, last_username, vote_completed,
                   show_confirm_dialog, vote_datetime, all_votes, pc,
                   votes_json, now, started, overlapped>>

\* A typed value in a voting session: what was typed is not recorded.
SetVote(s, option, value) ==
    /\ number_input(s, option, value)
    /\ UNCHANGED last_input

\* Mutant: the "vote anyway" button is not rendered.
ButtonShown_without_yes_anyway(s, b) ==
    IF vote_completed[s] THEN FALSE
    ELSE IF show_confirm_dialog[s] THEN b \in {"confirm_yes", "confirm_no"}
    ELSE IF get_remaining_credits(user_votes[s]) > 0 /\ ~can_vote_more(user_votes[s])
         THEN FALSE
    ELSE b = "confirm"
         /\ ~(get_remaining_credits(user_votes[s]) > 0 /\ can_vote_more(user_votes[s]))

\* Mutant: the confirm button is never disabled.
ButtonShown_never_disabled(s, b) ==
    IF vote_completed[s] THEN FALSE
    ELSE IF show_confirm_dialog[s] THEN b \in {"confirm_yes", "confirm_no"}
    ELSE IF get_remaining_credits(user_votes[s]) > 0 /\ ~can_vote_more(user_votes[s])
         THEN b = "yes_anyway"
    ELSE b = "confirm"

\* The buttons render_voting_buttons shows in the session's state.
ButtonShown(s, b) ==
    IF vote_completed[s] THEN FALSE
    ELSE IF show_confirm_dialog[s] THEN b \in {"confirm_yes", "confirm_no"}
    ELSE IF get_remaining_credits(user_votes[s]) > 0 /\ ~can_vote_more(user_votes[s])
         THEN b = "yes_anyway"
    ELSE b = "confirm"
         /\ ~(get_remaining_credits(user_votes[s]) > 0 /\ can_vote_more(user_votes[s]))

\* Which click leads into complete_vote.
Completes(s, b) ==
    \/ b = "confirm_yes"
    \/ b = "yes_anyway"
    \/ b = "confirm" /\ get_remaining_credits(user_votes[s]) = 0

\* A click on a button: render_voting_buttons, and the first line of
\* complete_vote when the click confirms; t is what datetime.now() reads,
\* to the second, never less than the reading before.
render_voting_buttons(s, b, t) ==
    /\ UNCHANGED <<vizVars, last_input>>
    /\ pc[s] = "idle"
    /\ username[s] # ""
    /\ ButtonShown(s, b)
    /\ IF Completes(s, b)
       THEN /\ started < MaxFinalize
            /\ t >= now
            /\ now' = t
            /\ vote_datetime' = [vote_datetime EXCEPT ![s] = t]
            /\ pc' = [pc EXCEPT ![s] = "load"]
            /\ started' = started + 1
            /\ overlapped' = (Running # {})
            /\ UNCHANGED show_confirm_dialog
       ELSE /\ t = now
            /\ show_confirm_dialog' =
                   [show_confirm_dialog EXCEPT ![s] = (b = "confirm")]
            /\ UNCHANGED <<vote_datetime, pc, started, overlapped, now>>
    /\ UNCHANGED <<credits, options, username, last_username, user_votes,
                   vote_completed, all_votes, validation, votes_json>>

\* Mutant: the new record is put in front of the loaded ones.
complete_vote_load_prepend(s) ==
    /\ UNCHANGED <<vizVars, last_input>>
    /\ pc[s] = "load"
    /\ all_votes' = [all_votes EXCEPT ![s] = <<VoteRecord(s)>> \o load_votes]
    /\ pc' = [pc EXCEPT ![s] = "save"]
    /\ UNCHANGED <<credits, options, username, last_username, user_votes,
                   vote_completed, show_confirm_dialog, vote_datetime,
                   validation, votes_json, now, started, overlapped>>

\* complete_vote: all_votes = self.load_votes(); all_votes.append(...)
complete_vote_load(s) ==
    /\ UNCHANGED <<vizVars, last_input>>
    /\ pc[s] = "load"
    /\ all_votes' = [all_votes EXCEPT ![s] = Append(load_votes, VoteRecord(s))]
    /\ pc' = [pc EXCEPT ![s] = "save"]
    /\ UNCHANGED <<credits, options, username, last_username, user_votes,
                   vote_completed, show_confirm_dialog, vote_datetime,
                   validation, votes_json, now, started,
                   overlapped>>

\* complete_vote: self.save_votes(all_votes) and the flags; st.rerun().
complete_vote_save(s) ==
    /\ UNCHANGED <<vizVars, last_input>>
    /\ pc[s] = "save"
    /\ votes_json' = save_votes(all_votes[s])
    /\ vote_completed' = [vote_completed EXCEPT ![s] = TRUE]
    /\ show_confirm_dialog' = [show_confirm_dialog EXCEPT ![s] = FALSE]
    /\ all_votes' = [all_votes EXCEPT ![s] = <<>>]
    /\ vote_datetime' = [vote_datetime EXCEPT ![s] = 0]
    /\ pc' = [pc EXCEPT ![s] = "idle"]
    /\ validation' = [validation EXCEPT ![s] = validate_votes(user_votes[s])]
    /\ UNCHANGED <<credits, options, username, last_username, user_votes,
                   now, started, overlapped>>

Next ==
    \/ \E s \in Sessions, u \in Usernames :
           text_input(s, u)
    \/ \E s \in Sessions, o \in options, v \in -1..MaxInput :
           SetVote(s, o, v)
    \/ \E s \in Sessions, b \in Buttons, t \in 0..MaxClock :
           render_voting_buttons(s, b, t)
    \/ \E s \in Sessions : complete_vote_load(s)
    \/ \E s \in Sessions : complete_vote_save(s)

Spec == Init /\ [][Next]_vars

\* ------------------------------------------ a voter who only adds votes
\* Each session's voter enters a name once, then only raises counts and
\* clicks the buttons shown; a voter who can act does act, and a
\* complete_vote that was entered runs to its end.
enter_name(s, u) ==
    /\ username[s] = ""
    /\ text_input(s, u)

increase_vote(s, option, value) ==
    /\ value > user_votes[s][option]
    /\ SetVote(s, option, value)

VoterStep(s) ==
    \/ \E o \in options, v \in 1..MaxInput : increase_vote(s, o, v)
    \/ \E b \in Buttons, t \in 0..MaxClock : render_voting_buttons(s, b, t)
    \/ complete_vote_load(s)
    \/ complete_vote_save(s)

VoterNext ==
    \/ \E s \in Sessions, u \in Usernames : enter_name(s, u)
    \/ \E s \in Sessions, o \in options, v \in 1..MaxInput :
           increase_vote(s, o, v)
    \/ \E s \in Sessions, b \in Buttons, t \in 0..MaxClock :
           render_voting_buttons(s, b, t)
    \/ \E s \in Sessions : complete_vote_load(s)
    \/ \E s \in Sessions : complete_vote_save(s)

SpecVoter ==
    /\ Init
    /\ [][VoterNext]_vars
    /\ \A s \in Sessions : WF_vars(VoterStep(s))

\* ------------------------------------------------- the allocator alone
\* The allocator's functions on any ballot: one session, named, with a
\* ballot drawn from all mappings of the options to 0..MaxVotes.
AllocInit ==
    /\ credits \in (1..MaxCredits) \cup {10}  \* 10: the budget of the example
    /\ options \in OptionSets
    /\ username = [s \in Sessions |-> IF s = "s1" THEN "alice" ELSE ""]
    /\ last_username = username
    /\ \E b \in [options -> 0..MaxVotes] :
           user_votes = [s \in Sessions |->
                            IF s = "s1" THEN b ELSE [o \in options |-> 0]]
    /\ vote_completed = [s \in Sessions |-> FALSE]
    /\ show_confirm_dialog = [s \in Sessions |-> FALSE]
    /\ vote_datetime = [s \in Sessions |-> 0]
    /\ all_votes = [s \in Sessions |-> <<>>]
    /\ pc = [s \in Sessions |-> "idle"]
    /\ validation = [s \in Sessions |-> "none"]
    /\ votes_json = File("absent", <<>>)
    /\ now = 0
    /\ started = 0
    /\ overlapped = FALSE
    /\ last_input = NoInput(user_votes["s1"])
    /\ VizIdle

\* A typed value, with what was typed and the ballot before it recorded.
AllocSetVote(option, value) ==
    /\ number_input("s1", option, value)
    /\ last_input' = [typed |-> TRUE, option |-> option, value |-> value,
                      before |-> user_votes["s1"]]

\* run() on a rerun without input: the ballot is validated as it stands.
AllocRun ==
    /\ validation["s1"] = "none"
    /\ validation' = [validation EXCEPT
                          !["s1"] = validate_votes(user_votes["s1"])]
    /\ UNCHANGED <<credits, options, username, last_username, user_votes,
                   vote_completed, show_confirm_dialog, vote_datetime,
                   all_votes, pc, votes_json, now, started, overlapped,
                   last_input, vizVars>>

AllocNext ==
    \/ \E o \in options, v \in -1..MaxInput : AllocSetVote(o, v)
    \/ AllocRun

SpecAlloc == AllocInit /\ [][AllocNext]_vars

\* -------------------------------------------------- reading the ledger
\* The values a record's votes may hold for option A in a file written by
\* any hand: counts, a numeric and a non-numeric string, 2.5 and -1.5,
\* null, Infinity.
Cells ==
    {Cell("int", 1), Cell("int", 2), Cell("intstr", 3), Cell("str", 0),
     Cell("float", 5), Cell("float", -3), Cell("null", 0), Cell("inf", 0)}

\* The "votes" objects of such a file: option A alone, no option, or
\* option B alone.
FileVotes ==
    {[o \in {"A"} |-> c] : c \in Cells}
        \cup {<<>>} \cup {[o \in {"B"} |-> Cell("int", 1)]}

FileRecords ==
    [username : Usernames, votes : FileVotes, vote_datetime : 0..MaxClock]

RECURSIVE SeqsUpTo(_, _)
SeqsUpTo(S, n) ==
    IF n = 0 THEN {<<>>}
    ELSE LET shorter == SeqsUpTo(S, n - 1)
         IN shorter \cup {Append(sq, x) : sq \in shorter, x \in S}

\* Both readers of votes.json on a file of any content: absent, of no
\* bytes, or a JSON array of up to MaxRecords records.
ReadInit ==
    /\ credits = 1
    /\ options = {"A"}
    /\ username = [s \in Sessions |-> ""]
    /\ last_username = [s \in Sessions |-> ""]
    /\ user_votes = [s \in Sessions |-> [o \in options |-> 0]]
    /\ vote_completed = [s \in Sessions |-> FALSE]
    /\ show_confirm_dialog = [s \in Sessions |-> FALSE]
    /\ vote_datetime = [s \in Sessions |-> 0]
    /\ all_votes = [s \in Sessions |-> <<>>]
    /\ pc = [s \in Sessions |-> "idle"]
    /\ validation = [s \in Sessions |-> "none"]
    /\ votes_json \in {File("absent", <<>>), File("empty", <<>>)}
           \cup {File("json", d) : d \in SeqsUpTo(FileRecords, MaxRecords)}
    /\ now = 0
    /\ started = 0
    /\ overlapped = FALSE
    /\ last_input = NoInput(user_votes["s1"])
    /\ VizIdle

\* The voting app's load_votes on the file, as complete_vote calls it.
read_load_votes ==
    /\ pc["s1"] = "idle"
    /\ all_votes' = [all_votes EXCEPT !["s1"] = load_votes]
    /\ pc' = [pc EXCEPT !["s1"] = "loaded"]
    /\ UNCHANGED <<credits, options, username, last_username, user_votes,
                   vote_completed, show_confirm_dialog, vote_datetime,
                   validation, votes_json, now, started, overlapped,
                   last_input, vizVars>>

appVars == <<credits, options, username, last_username, user_votes,
             vote_completed, show_confirm_dialog, vote_datetime, all_votes,
             pc, validation, votes_json, now, started, overlapped,
             last_input>>

\* main of the visualization: load_vote_data, with the handlers of
\* FileNotFoundError and json.JSONDecodeError.
viz_load ==
    /\ viz_pc = "start"
    /\ IF load_vote_data_raises # ""
       THEN /\ viz_pc' = load_vote_data_raises
            /\ UNCHANGED <<df_original, vote_columns>>
       ELSE /\ viz_pc' = "loaded"
            /\ df_original' = load_vote_data.df
            /\ vote_columns' = load_vote_data.vote_columns
    /\ UNCHANGED <<df_processed, vote_summary, appVars>>

\* main: df_processed = remove_duplicate_users(df_original)
viz_dedup ==
    /\ viz_pc = "loaded"
    /\ df_processed' \in remove_duplicate_users(df_original)
    /\ viz_pc' = "deduped"
    /\ UNCHANGED <<df_original, vote_columns, vote_summary, appVars>>

\* main: the summary of the deduplicated frame ({} for an empty frame),
\* with the handler of any other exception.
viz_summary ==
    /\ viz_pc = "deduped"
    /\ IF df_processed = <<>>
       THEN viz_pc' = "done" /\ vote_summary' = <<>>
       ELSE IF summary_raises(df_processed, vote_columns) # ""
            THEN /\ viz_pc' = summary_raises(df_processed, vote_columns)
                 /\ UNCHANGED vote_summary
            ELSE /\ viz_pc' = "done"
                 /\ vote_summary' =
                        calculate_vote_summary(df_processed, vote_columns)
    /\ UNCHANGED <<df_original, vote_columns, df_processed, appVars>>

ReadNext ==
    \/ read_load_votes
    \/ viz_load
    \/ viz_dedup
    \/ viz_summary

SpecRead == ReadInit /\ [][ReadNext]_vars

\* ================================================================ claims
\* The records of the ledger file.
Ledger == votes_json.data

\* C1: in every reachable state of a voting session the ballot's total
\* cost, the sum of the squares of its counts, is at most the budget, so
\* the remaining credits, budget minus cost, are never negative.
C1_CostWithinBudget ==
    \A s \in Sessions :
        /\ SumSq(user_votes[s], options) <= credits
        /\ get_remaining_credits(user_votes[s])
               = credits - SumSq(user_votes[s], options)
        /\ get_remaining_credits(user_votes[s]) >= 0

\* C1 witness: after vote updates a ballot with two non-zero options has
\* spent the whole budget.
C1_Witness ==
    \E s \in Sessions :
        /\ SumSq(user_votes[s], options) = credits
        /\ Cardinality({o \in options : user_votes[s][o] > 0}) > 1

\* C2: with more than one option configured, every option's count v in
\* every session's ballot and in every record of the ledger (written or
\* about to be written) has v * v < credits.
C2_NoSingleOptionMonopoly ==
    Cardinality(options) > 1 =>
        /\ \A s \in Sessions, o \in options :
               user_votes[s][o] * user_votes[s][o] < credits
        /\ \A s \in Sessions : \A i \in 1..Len(all_votes[s]) :
               \A o \in DOMAIN all_votes[s][i].votes :
                   all_votes[s][i].votes[o].v * all_votes[s][i].votes[o].v
                       < credits
        /\ \A i \in 1..Len(Ledger) : \A o \in DOMAIN Ledger[i].votes :
               Ledger[i].votes[o].v * Ledger[i].votes[o].v < credits

\* C2 witness: a record in the ledger holds an option at the single-option
\* cap, one vote short of what the budget alone would pay for.
C2_Witness ==
    /\ Cardinality(options) > 1
    /\ \E i \in 1..Len(Ledger) : \E o \in DOMAIN Ledger[i].votes :
           /\ Ledger[i].votes[o].v >= 1
           /\ (Ledger[i].votes[o].v + 1) * (Ledger[i].votes[o].v + 1)
                  = credits

\* The ballot of the allocator's session and what was typed last.
Ballot == user_votes["s1"]
OthersCost(b, o) == SumSq(b, options \ {o})

\* Whether count v is allowed for option o of ballot b: the budget pays
\* for it beside the other options and, with several options, it alone
\* stays below the budget.
Allowed(b, o, v) ==
    /\ OthersCost(b, o) + v * v <= credits
    /\ Cardinality(options) > 1 => v * v < credits

\* C3: for every ballot within budget and every option, the maximum is
\* floor(sqrt(budget - cost of the other options)), capped at
\* floor(sqrt(budget - 1)) with several options; it is the largest allowed
\* count, setting the option to it keeps the cost within the budget, and
\* options A, B with budget 10 and the all-zero ballot give 3.
C3_MaxAllowedFor ==
    SumSq(Ballot, options) <= credits =>
        \A o \in options :
            LET m == calculate_max_votes_for_option(Ballot, o)
                rest == credits - OthersCost(Ballot, o)
            IN /\ m >= 0
               /\ IF Cardinality(options) > 1
                  THEN /\ m * m <= rest /\ m * m <= credits - 1
                       /\ \/ (m + 1) * (m + 1) > rest
                          \/ (m + 1) * (m + 1) > credits - 1
                  ELSE m * m <= rest /\ (m + 1) * (m + 1) > rest
               /\ \A v \in 0..(credits + 1) : Allowed(Ballot, o, v) <=> v <= m
               /\ OthersCost(Ballot, o) + m * m <= credits
               /\ (credits = 10 /\ options = {"A", "B"}
                      /\ Ballot = [x \in options |-> 0]) => m = 3

\* C3 witness: an option was set to its maximum beside another option that
\* holds votes, and the ballot then costs exactly the budget.
C3_Witness ==
    /\ last_input.typed
    /\ last_input.value
           = calculate_max_votes_for_option(last_input.before,
                                            last_input.option)
    /\ OthersCost(last_input.before, last_input.option) > 0
    /\ Ballot[last_input.option] = last_input.value
    /\ Ballot # last_input.before
    /\ SumSq(Ballot, options) = credits

\* A typed value that setVote must reject on ballot b.
InvalidVote(b, o, v) ==
    \/ v < 0
    \/ v > calculate_max_votes_for_option(b, o)
    \/ OthersCost(b, o) + v * v > credits

\* C4: a value below 0, above the option's maximum, or whose cost would
\* exceed the budget is rejected, and the ballot is then what it was before.
C4_InvalidVoteRejected ==
    (/\ last_input.typed
     /\ SumSq(last_input.before, options) <= credits
     /\ InvalidVote(last_input.before, last_input.option, last_input.value))
        => Ballot = last_input.before

\* C4 witness: a count the budget alone would pay for was typed, above the
\* option's maximum because of the other options, and the ballot is as before.
C4_Witness ==
    /\ last_input.typed
    /\ SumSq(last_input.before, options) <= credits
    /\ last_input.value > 0
    /\ last_input.value * last_input.value < credits
    /\ last_input.value
           > calculate_max_votes_for_option(last_input.before,
                                            last_input.option)
    /\ Ballot = last_input.before

\* Some option alone reaches or exceeds the budget.
SomeOptionReachesBudget ==
    \E o \in options : Ballot[o] * Ballot[o] >= credits

\* C10 as stated: validate fails with OverBudget if the cost exceeds the
\* budget, fails with SingleOptionMonopoly if there are several options and
\* one option's count squared reaches the budget, and succeeds otherwise.
C10_ValidateAsStated ==
    validation["s1"] # "none" =>
        /\ SumSq(Ballot, options) > credits
               => validation["s1"] = "OverBudget"
        /\ (Cardinality(options) > 1 /\ SomeOptionReachesBudget)
               => validation["s1"] = "SingleOptionMonopoly"
        /\ (/\ SumSq(Ballot, options) <= credits
            /\ ~(Cardinality(options) > 1 /\ SomeOptionReachesBudget))
               => validation["s1"] = "ok"

\* C10 amended: the budget check comes first. validate fails with
\* OverBudget if the cost exceeds the budget; fails with
\* SingleOptionMonopoly if the cost is within the budget, there are several
\* options and one option's count squared reaches the budget; and succeeds
\* otherwise. A ballot of several options in which one count squared equals
\* the budget and the others are zero fails with SingleOptionMonopoly.
C10_ValidateBudgetFirst ==
    validation["s1"] # "none" =>
        /\ SumSq(Ballot, options) > credits
               => validation["s1"] = "OverBudget"
        /\ (/\ SumSq(Ballot, options) <= credits
            /\ Cardinality(options) > 1 /\ SomeOptionReachesBudget)
               => validation["s1"] = "SingleOptionMonopoly"
        /\ (/\ SumSq(Ballot, options) <= credits
            /\ ~(Cardinality(options) > 1 /\ SomeOptionReachesBudget))
               => validation["s1"] = "ok"
        /\ (/\ Cardinality(options) > 1
            /\ \E o \in options :
                   /\ Ballot[o] * Ballot[o] = credits
                   /\ OthersCost(Ballot, o) = 0)
               => validation["s1"] = "SingleOptionMonopoly"

\* C10 witness: a validated ballot of several options in which one count
\* squared equals the budget failed with SingleOptionMonopoly.
C10_Witness ==
    /\ Cardinality(options) > 1
    /\ \E o \in options : Ballot[o] * Ballot[o] = credits
    /\ validation["s1"] = "SingleOptionMonopoly"

\* Session s is at the step that rewrites the file and ends complete_vote.
Saves(s) == pc[s] = "save" /\ pc'[s] = "idle"

\* C5: when finalizations do not overlap, every step either leaves the
\* ledger as loaded unchanged (also a later edit of a ballot) or is the one
\* save of a finalization, after which loading returns the previous
\* sequence followed by the record of the voter's name, the ballot snapshot
\* and the timestamp.
C5_AppendOnly ==
    [][~overlapped =>
          \/ (\A s \in Sessions : ~Saves(s)) /\ load_votes' = load_votes
          \/ \E s \in Sessions :
                 /\ Saves(s)
                 /\ load_votes' = Append(load_votes, VoteRecord(s))
                 /\ load_votes'[Len(load_votes')].username = username[s]
                 /\ py_votes(load_votes'[Len(load_votes')].votes)
                        = user_votes[s]
                 /\ load_votes'[Len(load_votes')].vote_datetime
                        = vote_datetime[s]]_vars

\* C5 witness: two finalizations that did not overlap left two records, and
\* the second voter has since edited the ballot, which the record does not
\* follow.
C5_Witness ==
    /\ ~overlapped
    /\ Running = {}
    /\ Len(Ledger) = 2
    /\ \E s \in Sessions :
           /\ vote_completed[s]
           /\ Ledger[2].username = username[s]
           /\ py_votes(Ledger[2].votes) # user_votes[s]

\* C6: a save that leaves the ledger without one record more than it held
\* (an update is lost) happens only among overlapping finalizations, and
\* the ledger then ends with the last writer's record.
C6_LastWriterWins ==
    [][\A s \in Sessions :
          Saves(s) =>
              /\ Ledger'[Len(Ledger')] = VoteRecord(s)
              /\ Len(Ledger') <= Len(Ledger) + 1
              /\ Len(Ledger') < Len(Ledger) + 1 => overlapped]_vars

\* C6 witness: both sessions have completed their vote, no finalization is
\* under way, and the ledger holds one record only.
C6_Witness ==
    /\ \A s \in Sessions : vote_completed[s]
    /\ Running = {}
    /\ started = 2
    /\ Len(Ledger) = 1

\* The deduplication has run on df_original.
Deduped == viz_pc \in {"deduped", "done", "OverflowError"}

Voters(df) == {df[i].username : i \in 1..Len(df)}

\* The index in df of voter u's record of greatest vote_datetime, the last
\* one in df among several of that vote_datetime.
LatestIndex(df, u) ==
    CHOOSE i \in 1..Len(df) :
        /\ df[i].username = u
        /\ \A j \in 1..Len(df) :
               df[j].username = u =>
                   \/ df[j].vote_datetime < df[i].vote_datetime
                   \/ df[j].vote_datetime = df[i].vote_datetime /\ j <= i

C7_LatestUpToTies ==
    Deduped =>
        /\ Voters(df_processed) = Voters(df_original)
        /\ Len(df_processed) = Cardinality(Voters(df_original))
        /\ \A i \in 1..Len(df_processed) :
               \E k \in 1..Len(df_original) :
                   /\ df_processed[i] = df_original[k]
                   /\ \A j \in 1..Len(df_original) :
                          df_original[j].username = df_original[k].username
                              => df_original[j].vote_datetime
                                     <= df_original[k].vote_datetime
        /\ \A i, j \in 1..Len(df_processed) :
               i < j => df_processed[i].vote_datetime
                            <= df_processed[j].vote_datetime

\* What a record's votes add to an option's total according to C8 as
\* stated: the count if it is an integer, 0 otherwise.
IntegerOrZero(votes, c) ==
    IF c \in DOMAIN votes /\ votes[c].k = "int" THEN votes[c].v ELSE 0

\* What they add in the code: an integer and a string that is an integer
\* literal count as that integer, a finite fractional number as its integer
\* part (towards zero), anything else and a missing option as 0.
Contribution(votes, c) ==
    IF c \notin DOMAIN votes THEN 0
    ELSE CASE votes[c].k \in {"int", "intstr"} -> votes[c].v
           [] votes[c].k = "float" /\ votes[c].v >= 0 ->
                  CHOOSE n \in 0..votes[c].v :
                      2 * n <= votes[c].v /\ votes[c].v < 2 * (n + 1)
           [] votes[c].k = "float" /\ votes[c].v < 0 ->
                  CHOOSE n \in votes[c].v..0 :
                      2 * (n - 1) < votes[c].v /\ votes[c].v <= 2 * n
           [] OTHER -> 0

RECURSIVE Total(_, _, _, _)
Total(F(_, _), df, c, n) ==
    IF n = 0 THEN 0 ELSE F(df[n].votes, c) + Total(F, df, c, n - 1)

\* The summary stage has run on a frame with records.
Summarized == viz_pc \in {"done", "OverflowError"} /\ df_processed # <<>>

HasInfinity ==
    \E i \in 1..Len(df_processed), c \in vote_columns :
        c \in DOMAIN df_processed[i].votes
            /\ df_processed[i].votes[c].k = "inf"

\* C8 as stated: the summary gives for each option the sum of its integer
\* counts, a record without the option or with a non-integer value adding
\* 0, and no error is raised.
C8_TotalsAsStated ==
    Summarized =>
        /\ viz_pc = "done"
        /\ DOMAIN vote_summary = vote_columns
        /\ \A c \in vote_columns :
               vote_summary[c]
                   = Total(IntegerOrZero, df_processed, c, Len(df_processed))

\* C8 amended: a record adds its integer count, the integer a numeric
\* string denotes, the integer part of a finite fractional number, and 0
\* for a missing option, null or a non-numeric string; no error is raised
\* unless a value is infinite, and then OverflowError is raised.
C8_TotalsByConversion ==
    Summarized =>
        /\ viz_pc = "OverflowError" <=> HasInfinity
        /\ viz_pc = "done" =>
               /\ DOMAIN vote_summary = vote_columns
               /\ \A c \in vote_columns :
                      vote_summary[c]
                          = Total(Contribution, df_processed, c,
                                  Len(df_processed))

\* C8 witness: a summary was made of a negative fractional number and of a
\* value that is no number beside it.
C8_Witness ==
    /\ viz_pc = "done"
    /\ Len(df_processed) = 2
    /\ \E i, j \in 1..2 :
           /\ "A" \in DOMAIN df_processed[i].votes
           /\ df_processed[i].votes["A"] = Cell("float", -3)
           /\ "A" \in DOMAIN df_processed[j].votes
           /\ df_processed[j].votes["A"].k \in {"str", "null"}
    /\ vote_summary["A"] = -1

VizErrors == {"FileNotFoundError", "JSONDecodeError"}

\* The voting app's load_votes has run: an absent or empty file gave the
\* empty sequence.
AppLoadEmpty ==
    (pc["s1"] = "loaded" /\ votes_json.state \in {"absent", "empty"})
        => all_votes["s1"] = <<>>

\* C9 as stated: on an absent or empty file both loads, the voting app's
\* and the visualization's, return the empty sequence without an error.
C9_LoadAsStated ==
    /\ AppLoadEmpty
    /\ (viz_pc # "start" /\ votes_json.state \in {"absent", "empty"})
           => viz_pc \notin VizErrors /\ df_original = <<>>

\* C9 amended: the voting app's load returns the empty sequence on an
\* absent or empty file; the visualization's load fails on them, with
\* FileNotFoundError and a JSON decode error, and returns the empty
\* sequence without error for a file that holds an empty array.
C9_LoadPerReader ==
    /\ AppLoadEmpty
    /\ viz_pc # "start" =>
           /\ votes_json.state = "absent" => viz_pc = "FileNotFoundError"
           /\ votes_json.state = "empty" => viz_pc = "JSONDecodeError"
           /\ (votes_json.state = "json" /\ votes_json.data = <<>>)
                  => viz_pc \notin VizErrors /\ df_original = <<>>

\* C9 witness: both readers have read a file of no bytes: the voting app
\* got the empty sequence, the visualization the JSON decode error.
C9_Witness ==
    /\ votes_json.state = "empty"
    /\ pc["s1"] = "loaded"
    /\ all_votes["s1"] = <<>>
    /\ viz_pc = "JSONDecodeError"

\* Option o of ballot b can take one more vote: the increment 2v + 1 is
\* paid by what remains and, with several options, v + 1 stays within the
\* single-option cap floor(sqrt(credits - 1)).
NextFits(b, o) ==
    /\ 2 * b[o] + 1 <= credits - SumSq(b, options)
    /\ Cardinality(options) > 1 => b[o] + 1 <= isqrt(credits - 1)

\* C11: for every ballot within budget, can_vote_more is true exactly if
\* some option's next increment fits the remaining credits without passing
\* the single-option cap, and exactly if some option's count is below its
\* maximum allowed count.
C11_CanIncreaseAny ==
    SumSq(Ballot, options) <= credits =>
        /\ can_vote_more(Ballot) <=> \E o \in options : NextFits(Ballot, o)
        /\ can_vote_more(Ballot)
               <=> \E o \in options :
                       Ballot[o] < calculate_max_votes_for_option(Ballot, o)

\* C11 witness: after a typed count was taken, the remaining credits would
\* pay for one more vote on an option whose cap forbids it, and another
\* option can still be increased.
C11_Witness ==
    /\ last_input.typed
    /\ Ballot # last_input.before
    /\ SumSq(Ballot, options) < credits
    /\ \E o \in options :
           /\ 2 * Ballot[o] + 1 <= credits - SumSq(Ballot, options)
           /\ (Ballot[o] + 1) * (Ballot[o] + 1) >= credits
    /\ can_vote_more(Ballot)

\* C12: once a session has completed its vote (its record is in the file
\* and vote_completed is set), no later step changes that session's ballot.
C12_FrozenAfterFinalize ==
    [][\A s \in Sessions :
           vote_completed[s] => user_votes'[s] = user_votes[s]]_vars

\* Ballot b has nothing left to spend: no credits remain, or no option can
\* take one more vote.
Spent(b) ==
    \/ credits - SumSq(b, options) = 0
    \/ ~can_vote_more(b)

\* Session s enters complete_vote.
Finalizes(s) == pc[s] = "idle" /\ pc'[s] = "load"

\* C13: a session enters complete_vote, and appends its record to the
\* file, only with a ballot that has no credits left or no option that can
\* still be increased; the record it appends holds such a ballot.
C13_FinalizeOnlyWhenSpent ==
    [][\A s \in Sessions :
           /\ Finalizes(s) => Spent(user_votes[s])
           /\ Saves(s) =>
                  /\ Spent(user_votes[s])
                  /\ Len(Ledger') >= 1
                  /\ Spent(py_votes(Ledger'[Len(Ledger')].votes))]_vars

\* C13 witness: a session has completed its vote and the file holds a
\* record whose ballot leaves credits unspent, finalized because no option
\* could be increased.
C13_Witness ==
    /\ \E s \in Sessions : vote_completed[s]
    /\ \E i \in 1..Len(Ledger) :
           /\ SumSq(py_votes(Ledger[i].votes), options) < credits
           /\ SumSq(py_votes(Ledger[i].votes), options) > 0
           /\ ~can_vote_more(py_votes(Ledger[i].votes))

\* The number input of some option of session s takes a higher count.
CanIncrease(s) ==
    \E o \in options :
        user_votes[s][o] < calculate_max_votes_for_option(user_votes[s], o)

\* A button that leads into complete_vote is shown to session s, enabled.
CanFinalize(s) ==
    \E b \in Buttons : ButtonShown(s, b) /\ Completes(s, b)

\* Session s has a name, has not completed its vote and is not inside
\* complete_vote.
Voting(s) ==
    username[s] # "" /\ ~vote_completed[s] /\ pc[s] = "idle"

NotStuck ==
    \A s \in Sessions :
        Voting(s) =>
            \/ can_vote_more(user_votes[s]) /\ CanIncrease(s)
            \/ CanFinalize(s)

\* C14: a named session that has not completed its vote can always raise
\* some option's count or click a button that finalizes, and a voter who
\* only raises counts and clicks completes the vote after finitely many
\* steps, for every budget 1..MaxCredits and every option set.
C14_NeverStuck ==
    /\ []NotStuck
    /\ \A s \in Sessions :
           (username[s] # "" /\ ~vote_completed[s]) ~> vote_completed[s]

\* C14 on every state of the voting app, with counts lowered, names
\* changed and ballots edited after completion.
C14_NotStuckAnywhere == NotStuck

\* C14 witness: a session completed its vote after raising two options,
\* with credits left over that no option could take.
C14_Witness ==
    \E s \in Sessions :
        /\ vote_completed[s]
        /\ \A o \in options : user_votes[s][o] > 0
        /\ Cardinality(options) > 1
        /\ SumSq(user_votes[s], options) < credits

====
